---- MODULE Spec2Model ----
(***************************************************************************)
(* Model of the meeting transcription app, one group of variables per      *)
(* component:                                                              *)
(*   - the client-side capture state machine (AudioRecorder.tsx);          *)
(*   - the live transcript of the meeting page (MeetingDetails.tsx,        *)
(*     RealTimeTranscription.tsx);                                         *)
(*   - the server's transcript sequencer, job queue and worker pool;       *)
(*   - the keyword matcher (services/keywordMatcher.ts);                   *)
(*   - the meeting context and the meeting page (MeetingContext.tsx,       *)
(*     MeetingPage, MeetingList, MeetingForm, MeetingDetails).             *)
(* Each specification moves one component and leaves the others alone.     *)
(*                                                                         *)
(* Capture.                                                                *)
(* The component's refs and React state are the variables.  Every event    *)
(* handler is one action: the two button handlers (startRecording,         *)
(* stopRecording), the resolution of getUserMedia, the setInterval         *)
(* callback (Tick) and the task in which a stopped MediaRecorder fires     *)
(* dataavailable followed by stop (FinalizeRecorder).  The browser gives   *)
(* no bound on the delay between MediaRecorder.stop() and that task, so    *)
(* the task of a stopped recorder stays pending until it is taken.         *)
(*                                                                         *)
(* Time is Date.now() in milliseconds.  The timer callback runs every      *)
(* CHECK_INTERVAL_MS; all other handlers run at the current instant.       *)
(***************************************************************************)
EXTENDS Integers, Sequences, FiniteSets, TLC

\* ---------------------------------------------------------------- VAD_CONFIG
SPEECH_START_DELAY_MS == 200
SPEECH_END_DELAY_MS == 1000
MIN_CHUNK_DURATION_MS == 1000
MAX_CHUNK_DURATION_MS == 30000
CHECK_INTERVAL_MS == 100

\* ------------------------------------------------------------------- bounds
\* Date.now() when the component is mounted (any value far above the
\* thresholds: the refs that hold timestamps start at 0).
Epoch == 100000
\* Span of time explored with a free microphone signal.
MaxElapsed == 1500
\* Span of time explored with a scripted, continuous utterance.
MaxElapsedLong == 47500
\* MediaRecorder instances created in one behaviour.
MaxRecorders == 2
\* Capture sessions (startRecording ... stopRecording) in one behaviour.
MaxSessions == 2
\* Ids of meetings: all but the last exist on the server at the start.
MaxMeetings == 3
\* API calls made by the meeting context in one behaviour.
MaxCalls == 4
\* getById calls made by MeetingDetails in one behaviour.
MaxLoads == 2
\* Segments submitted for transcription in one behaviour.
MaxSegments == 3
\* Websocket messages received by the meeting page in one behaviour.
MaxMessages == 4
\* Completion notifications processed by the sequencer in one behaviour.
MaxNotifications == 4
\* Workers of the pool (N) and jobs enqueued in one behaviour (M > N).
MaxWorkers == 2
MaxJobs == 3
\* Keywords in the list and characters in the text handed to matchKeywords.
MaxKeywords == 2
MaxTextLen == 3

\* -------------------------------------------------------------------- state
VARIABLES
    now,                    \* Date.now()
    env,                    \* the microphone signal and the task scheduling
    wsState,                \* readyState of the websocket prop
    isRecording,            \* React state isRecording
    closureIsRecording,     \* isRecording as captured by the running handlers
    audioStatus,            \* React state audioStatus
    vadState,               \* vadStateRef.current
    mediaRecorder,          \* mediaRecorderRef.current (0 is null)
    recorders,              \* the MediaRecorder instances created so far
    chunkCount,             \* chunkCountRef.current
    processingInterval,     \* processingIntervalRef.current !== null
    currentChunks,          \* currentChunksRef.current
    speechStartTime,        \* speechStartTimeRef.current
    lastSpeechTime,         \* lastSpeechTimeRef.current
    consecutiveSpeechTime,  \* consecutiveSpeechTimeRef.current
    consecutiveSilenceTime, \* consecutiveSilenceTimeRef.current
    sent,                   \* the frames handed to websocket.send, in order
    session,                \* capture sessions started so far
    speechRun,              \* consecutive above-threshold samples seen by the timer
    silenceRun,             \* consecutive sub-threshold samples seen by the timer
    lastEvent               \* the handler that ran last, and what it decided

captureVars == <<now, env, wsState, isRecording, closureIsRecording, audioStatus,
                 vadState, mediaRecorder, recorders, chunkCount, processingInterval,
                 currentChunks, speechStartTime, lastSpeechTime, consecutiveSpeechTime,
                 consecutiveSilenceTime, sent, session, speechRun, silenceRun,
                 lastEvent>>

\* The live transcript of the meeting page (MeetingDetails.tsx,
\* RealTimeTranscription.tsx) and the transcription jobs behind it.
VARIABLES
    jobs,                   \* the transcription job of each segment (server side)
    registered,             \* window.addRealTimeTranscription_<meetingId> is set
    chunks,                 \* React state chunks of RealTimeTranscription
    isActive,               \* React state isActive of RealTimeTranscription
    msgCount,               \* websocket messages received so far
    lastMessage             \* the websocket message handled last

transcriptVars == <<jobs, registered, chunks, isActive, msgCount, lastMessage>>

\* The per-meeting state of the transcript sequencer.
VARIABLES
    totalSubmitted,         \* segments submitted so far
    totalCompleted,         \* results applied to the transcript, in order
    pendingResults,         \* sequenceNumber -> text of the results held back
    transcriptText,         \* the transcript
    notified,               \* sequence numbers notified so far
    notifications,          \* completion notifications processed so far
    lastNotification        \* the notification processed last

sequencerVars == <<totalSubmitted, totalCompleted, pendingResults, transcriptText,
                   notified, notifications, lastNotification>>

\* The job queue and the worker pool of the transcription service.
VARIABLES
    queue,                  \* the FIFO of queued job ids
    enqueued,               \* jobs enqueued so far (job ids are 1..enqueued)
    jobStatus,              \* status of each job record
    workers,                \* each worker: where it is in its loop, and its job
    claimedBy,              \* per job, the workers dequeue handed it to, in order
    processed               \* per job, how many times a worker has processed it

queueVars == <<queue, enqueued, jobStatus, workers, claimedBy, processed>>

\* One call of matchKeywords (services/keywordMatcher.ts).
VARIABLES
    keywords,               \* argument keywords
    text,                   \* argument text
    matches,                \* the returned KeywordMatch[]
    returned                \* the call has returned

matcherVars == <<keywords, text, matches, returned>>

\* The meeting context (contexts/MeetingContext.tsx), the dialogs of the
\* meeting page and the state of MeetingDetails.
VARIABLES
    server,                 \* ids of the meetings the API server holds
    meetings,               \* React state meetings (their ids, in order)
    currentMeetingId,       \* React state currentMeetingId (0 is null)
    currentMeeting,         \* React state currentMeeting (its id, 0 is null)
    currentMeetingMode,     \* React state currentMeetingMode
    isLoading,              \* React state isLoading
    error,                  \* React state error !== null
    isCreateDialogOpen,     \* React state isCreateDialogOpen of the page
    isConfirmDialogOpen,    \* React state isConfirmDialogOpen of the page
    confirmResolve,         \* the handler awaiting the confirmation dialog
    calls,                  \* the API calls of the context, in call order
    detailsMeeting,         \* React state meeting of MeetingDetails (its id)
    detailsLoading,         \* React state loading of MeetingDetails
    detailsError,           \* React state error !== null of MeetingDetails
    loads                   \* the getById calls of MeetingDetails, in call order

meetingVars == <<server, meetings, currentMeetingId, currentMeeting,
                 currentMeetingMode, isLoading, error, isCreateDialogOpen,
                 isConfirmDialogOpen, confirmResolve, calls, detailsMeeting,
                 detailsLoading, detailsError, loads>>

\* What the handlers of the capture component leave alone.
beyondTranscript == <<sequencerVars, queueVars, matcherVars, meetingVars>>
beyondCapture == <<transcriptVars, beyondTranscript>>

vars == <<captureVars, transcriptVars, beyondTranscript>>

\* enum RecordingState
WAITING_FOR_SPEECH == "waiting"
RECORDING_SPEECH == "recording"
CONFIRMING_END == "confirming_end"

NoOnStop == [set |-> FALSE, duration |-> 0, isRecording |-> FALSE]
NoEvent == [name |-> "none", rec |-> 0, speech |-> FALSE, from |-> "",
            outcome |-> "", count |-> 0]

Event(n, r, sp, fr, out, c) ==
    [name |-> n, rec |-> r, speech |-> sp, from |-> fr, outcome |-> out, count |-> c]

\* ------------------------------------------------------------- environment
\* The microphone signal.  A free signal gives any sample at any instant; a
\* scripted one is a single utterance from the mount until env.speechUntil,
\* interrupted by one pause of env.pauseLen ms that begins at env.pauseAt.
FreeSignal == [free |-> TRUE, speechUntil |-> 0, pauseAt |-> 0, pauseLen |-> 0]

Script(until, at, len) ==
    [free |-> FALSE, speechUntil |-> until, pauseAt |-> at, pauseLen |-> len]

\* getVolume() > SILENCE_THRESHOLD, for the sample taken at instant t.
SpeechSamples(t) ==
    IF env.free THEN BOOLEAN
    ELSE {t <= env.speechUntil /\ ~(t > env.pauseAt /\ t <= env.pauseAt + env.pauseLen)}

TimeLimit == IF env.free THEN Epoch + MaxElapsed ELSE Epoch + MaxElapsedLong

Pending == {r \in 1..Len(recorders) : recorders[r].pending}

\* ------------------------------------------------------------ VAD decisions
\* Mutant: a sub-threshold sample does not reset the accumulated speech time.
WaitingSpeechTimeKept(isSpeech, consec) ==
    IF isSpeech THEN consec + CHECK_INTERVAL_MS ELSE consec

\* WAITING_FOR_SPEECH: the consecutive-speech time after one more sample.
WaitingSpeechTime(isSpeech, consec) ==
    IF isSpeech THEN consec + CHECK_INTERVAL_MS ELSE 0

\* Sustained speech required before starting.
SpeechStartReached(consec) == consec >= SPEECH_START_DELAY_MS

\* RECORDING_SPEECH: lastSpeechTimeRef after the sample taken at t.
LastSpeechAfterSample(isSpeech, t, last) == IF isSpeech THEN t ELSE last

\* Mutant: the silence must exceed the delay, one tick late.
SilenceEndLate(t, last) == t - last > SPEECH_END_DELAY_MS

\* End the recording because of silence.
SilenceEndReached(t, last) == t - last >= SPEECH_END_DELAY_MS

\* Force-end the recording because it is too long.
MaxDurationReached(t, start) == t - start >= MAX_CHUNK_DURATION_MS

\* Only send if the chunk meets the minimum duration.
MeetsMinDuration(duration) == duration >= MIN_CHUNK_DURATION_MS

\* Mutant: the segment is sent whatever the websocket's state.
WebSocketAny(ws) == TRUE

\* sendAudioChunk's guard on the websocket.
WebSocketAvailable(ws) == ws = "open"

\* startRecording's guard on the websocket.
CanStartWith(ws) == ws = "open"

\* chunkCountRef.current++ : the counter after taking an index.
NextChunkCount(c) == c + 1

\* onstop: start a new recording immediately?
ContinueRecording(isSpeech, capturedIsRecording) == isSpeech /\ capturedIsRecording

\* Mutant: the start of the recording is not stored (the ref keeps its 0).
RecordingStartStampUnset(t) == 0

\* startNewRecording: the timestamp stored as the recording's start.
RecordingStartStamp(t) == t

\* A start that leaves the time of the last speech as it was.
LastSpeechKept(t, last) == last

\* startNewRecording: the time of the last speech when a recording starts.
LastSpeechAtStart(t, last) == t

\* new Blob(currentChunksRef.current)
SpeechBlob(blobParts) == blobParts

\* ------------------------------------------------------------- MediaRecorder
\* new MediaRecorder(stream) followed by recorder.start(), at instant t.
NewRecorder(t) ==
    [state |-> "recording", pending |-> FALSE, onstop |-> NoOnStop,
     startedAt |-> t, stoppedAt |-> 0, via |-> "", outcome |-> "",
     session |-> session]

\* recorder.stop(): the recorder is inactive at once and the task that fires
\* dataavailable and stop is queued.
StoppedRecorder(rec, t, via, onstop) ==
    [rec EXCEPT !.state = "inactive", !.pending = TRUE, !.onstop = onstop,
                !.stoppedAt = t, !.via = via]

MinOf(a, b) == IF a <= b THEN a ELSE b

\* e.data.size > 0 for the blob a recorder emits when stopped: a recorder
\* stopped at the instant it was started may emit an empty blob.
DataSizes(rec) == IF rec.stoppedAt > rec.startedAt THEN {TRUE} ELSE BOOLEAN

\* startNewRecording, at instant t, the instances so far being recs.
StartNewRecording(t, recs) ==
    /\ Len(recs) < MaxRecorders
    /\ recorders' = Append(recs, NewRecorder(t))
    /\ currentChunks' = <<>>
    /\ mediaRecorder' = Len(recs) + 1
    /\ speechStartTime' = RecordingStartStamp(t)
    /\ lastSpeechTime' = LastSpeechAtStart(t, lastSpeechTime)

\* stopCurrentRecording, at instant t: nothing when there is no active
\* recorder, else onstop is set (it keeps recordingDuration and the handler's
\* isRecording) and the recorder is stopped.
StopCurrentRecording(t, via) ==
    recorders' =
        IF mediaRecorder = 0 \/ recorders[mediaRecorder].state = "inactive"
        THEN recorders
        ELSE [recorders EXCEPT ![mediaRecorder] =
                StoppedRecorder(@, t, via,
                    [set |-> TRUE, duration |-> t - speechStartTime,
                     isRecording |-> closureIsRecording])]

\* ----------------------------------------------------------- live transcript
Segments == 0..(MaxSegments - 1)

\* String.prototype.trim on a text given as the sequence of its characters.
IsSpace(c) == c = " "
RECURSIVE TrimStart(_)
TrimStart(t) == IF t # <<>> /\ IsSpace(Head(t)) THEN TrimStart(Tail(t)) ELSE t
RECURSIVE TrimEnd(_)
TrimEnd(t) ==
    IF t # <<>> /\ IsSpace(t[Len(t)]) THEN TrimEnd(SubSeq(t, 1, Len(t) - 1)) ELSE t
Trim(t) == TrimEnd(TrimStart(t))

\* The texts the transcription service may return for segment k: words
\* surrounded by blanks, only blanks, or nothing.
Letters == <<"A", "B", "C", "D", "E", "F">>
SegmentTexts(k) == {<<" ", Letters[k + 1], " ">>, <<" ">>, <<>>}

QueuedJob == [status |-> "queued", text |-> <<>>]

\* The websocket frames the server pushes to the meeting page: the status of
\* a job, and frames that are not transcription results.
Message(kind, type, seq, status, fullText) ==
    [kind |-> kind, type |-> type, seq |-> seq, status |-> status, full_text |-> fullText]
NoMessage == Message("none", "", 0, "", <<>>)
StatusMessage(k) ==
    Message("json", "transcription_status", k, jobs[k].status, jobs[k].text)
OtherMessages ==
    {Message("binary", "", 0, "", <<>>),
     Message("text", "", 0, "", <<>>),
     Message("json", "connected", 0, "", <<>>)}

\* A handler that takes a result only at its place in the sequence.
CompletedInSequence(m) ==
    /\ m.kind = "json"
    /\ m.type = "transcription_status"
    /\ m.status = "completed"
    /\ m.full_text # <<>>
    /\ m.seq = Len(chunks)
\* The test of ws.onmessage on a frame.
IsCompletedTranscription(m) ==
    /\ m.kind = "json"
    /\ m.type = "transcription_status"
    /\ m.status = "completed"
    /\ m.full_text # <<>>

\* addTranscriptionChunk(text); seq records the segment the text came from.
AddTranscriptionChunk(fullText, seq) ==
    LET chunk == [text |-> Trim(fullText), seq |-> seq] IN
    IF chunk.text # <<>>
    THEN /\ chunks' = Append(chunks, chunk)
         /\ isActive' = TRUE
    ELSE UNCHANGED <<chunks, isActive>>

\* clearTranscription, as called by startRecording through the window.
ClearRealTimeTranscription ==
    IF registered
    THEN /\ chunks' = <<>>
         /\ isActive' = FALSE
    ELSE UNCHANGED <<chunks, isActive>>

\* The meeting is loaded: RealTimeTranscription is mounted and registers its
\* functions on the window.
MeetingLoaded ==
    /\ ~registered
    /\ registered' = TRUE
    /\ UNCHANGED <<jobs, chunks, isActive, msgCount, lastMessage>>

\* A worker ends the job of segment k with the text of the service.
JobCompleted(k, words) ==
    /\ jobs[k].status = "queued"
    /\ jobs' = [jobs EXCEPT ![k] = [status |-> "completed", text |-> words]]
    /\ UNCHANGED <<registered, chunks, isActive, msgCount, lastMessage>>

\* A worker ends the job of segment k in failure.
JobFailed(k) ==
    /\ jobs[k].status = "queued"
    /\ jobs' = [jobs EXCEPT ![k] = [status |-> "failed", text |-> <<>>]]
    /\ UNCHANGED <<registered, chunks, isActive, msgCount, lastMessage>>

\* ws.onmessage on frame m.
OnMessage(m) ==
    /\ wsState = "open"
    /\ msgCount < MaxMessages
    /\ msgCount' = msgCount + 1
    /\ lastMessage' = m
    /\ IF IsCompletedTranscription(m) /\ registered
       THEN AddTranscriptionChunk(m.full_text, m.seq)
       ELSE UNCHANGED <<chunks, isActive>>
    /\ UNCHANGED <<jobs, registered>>

\* The Clear button of the live transcript.
ClearTranscription ==
    /\ registered
    /\ isActive \/ chunks # <<>>
    /\ chunks' = <<>>
    /\ isActive' = FALSE
    /\ UNCHANGED <<jobs, registered, msgCount, lastMessage>>

\* ------------------------------------------------------ transcript sequencer
\* The text of the segment with sequence number k ("A ", "B ", "C ", ...).
SegmentText(k) == <<Letters[k + 1], " ">>

\* The sequence numbers a notification can carry: those of the segments, and
\* one beyond every segment that is ever submitted.
SequenceNumbers == 0..MaxSegments

\* A drain that takes nothing from pendingResults.
DrainNothing(n, pending) == n

\* The value of totalCompleted after draining pendingResults from n on.
RECURSIVE DrainTo(_, _)
DrainTo(n, pending) ==
    IF n \in DOMAIN pending THEN DrainTo(n + 1, pending) ELSE n

\* The texts of pending for sequence numbers from..(to - 1), concatenated.
RECURSIVE Drained(_, _, _)
Drained(from, to, pending) ==
    IF from >= to THEN <<>>
    ELSE pending[from] \o Drained(from + 1, to, pending)

\* submit(meetingId, sessionId, sequenceNumber, audioPayload).
Submit ==
    /\ totalSubmitted < MaxSegments
    /\ totalSubmitted' = totalSubmitted + 1
    /\ UNCHANGED <<totalCompleted, pendingResults, transcriptText, notified,
                   notifications, lastNotification>>

\* A completion notification for (meetingId, seq, text) is processed.
Notify(seq, segText) ==
    /\ notifications < MaxNotifications
    /\ notifications' = notifications + 1
    /\ notified' = notified \cup {seq}
    /\ lastNotification' = seq
    /\ IF seq < totalCompleted THEN
          UNCHANGED <<totalCompleted, pendingResults, transcriptText>>
       ELSE IF seq = totalCompleted THEN
          LET to == DrainTo(seq + 1, pendingResults) IN
          /\ transcriptText' =
                transcriptText \o segText \o Drained(seq + 1, to, pendingResults)
          /\ totalCompleted' = to
          /\ pendingResults' =
                [k \in DOMAIN pendingResults \ ((seq + 1)..(to - 1)) |-> pendingResults[k]]
       ELSE
          /\ pendingResults' =
                [k \in DOMAIN pendingResults \cup {seq} |->
                    IF k = seq THEN segText ELSE pendingResults[k]]
          /\ UNCHANGED <<totalCompleted, transcriptText>>
    /\ UNCHANGED totalSubmitted

\* ------------------------------------------------- job queue and worker pool
Workers == 1..MaxWorkers
JobIds == 1..MaxJobs
IdleWorker == [pc |-> "blocked", job |-> 0]

\* A dequeue that reads the head of the queue and leaves it there.
QueueAfterPeek(q) == q

\* The queue after dequeue() has handed out its head.
QueueAfterDequeue(q) == Tail(q)

\* enqueue(job): a submitted segment becomes a queued job.
Enqueue ==
    /\ enqueued < MaxJobs
    /\ enqueued' = enqueued + 1
    /\ queue' = Append(queue, enqueued + 1)
    /\ jobStatus' = [jobStatus EXCEPT ![enqueued + 1] = "queued"]
    /\ UNCHANGED <<workers, claimedBy, processed>>

\* dequeue() returns in worker w, which was blocked on it: the head of the
\* queue is handed to w in one atomic step.
Dequeue(w) ==
    /\ workers[w].pc = "blocked"
    /\ queue # <<>>
    /\ queue' = QueueAfterDequeue(queue)
    /\ workers' = [workers EXCEPT ![w] = [pc |-> "claimed", job |-> Head(queue)]]
    /\ claimedBy' = [claimedBy EXCEPT ![Head(queue)] = Append(@, w)]
    /\ UNCHANGED <<enqueued, jobStatus, processed>>

\* Worker w marks its job processing.
MarkProcessing(w) ==
    /\ workers[w].pc = "claimed"
    /\ workers' = [workers EXCEPT ![w].pc = "processing"]
    /\ jobStatus' = [jobStatus EXCEPT ![workers[w].job] = "processing"]
    /\ UNCHANGED <<queue, enqueued, claimedBy, processed>>

\* Worker w ends its job (completed with the text of the service, or failed:
\* no requeue) and blocks on dequeue again.
FinishJob(w, status) ==
    /\ workers[w].pc = "processing"
    /\ workers' = [workers EXCEPT ![w] = IdleWorker]
    /\ jobStatus' = [jobStatus EXCEPT ![workers[w].job] = status]
    /\ processed' = [processed EXCEPT ![workers[w].job] = @ + 1]
    /\ UNCHANGED <<queue, enqueued, claimedBy>>

\* ------------------------------------------------------------ keywordMatcher
\* Strings are sequences of characters.  Word characters (\w) with both
\* cases, a blank, and a character that is special in a regular expression.
WordChars == {"a", "A", "b", "B"}
Alphabet == {"a", "A", "b", "+", " "}
RegexSpecial == {".", "*", "+", "?", "^", "$", "{", "}", "(", ")", "|", "[", "]", "\\"}

\* Sequences over S of length at most n.
SeqsUpTo(S, n) == UNION {[1..l -> S] : l \in 0..n}

\* The keywords a list is made of.
KeywordPool ==
    {<<>>, <<"a">>, <<"A">>, <<"b">>, <<"+">>, <<"a", "b">>, <<"a", "+">>,
     <<"+", "a">>, <<"a", " ", "b">>, <<"A", "B">>}

\* String.prototype.toLowerCase, and the canonical form of a character under
\* the i flag (its upper case).
LowerChar(c) == IF c = "A" THEN "a" ELSE IF c = "B" THEN "b" ELSE c
UpperChar(c) == IF c = "a" THEN "A" ELSE IF c = "b" THEN "B" ELSE c
ToLowerCase(str) == [i \in DOMAIN str |-> LowerChar(str[i])]

\* str.slice(from, to) with offsets counted from 0.
Slice(str, from, to) == SubSeq(str, from + 1, to)

\* keyword.replace(/[.*+?^${}()|[\]\\]/g, '\\$&')
RECURSIVE EscapeRegex(_)
EscapeRegex(keyword) ==
    IF keyword = <<>> THEN <<>>
    ELSE (IF Head(keyword) \in RegexSpecial
          THEN <<"\\", Head(keyword)>>
          ELSE <<Head(keyword)>>) \o EscapeRegex(Tail(keyword))

\* escaped.join('|')
RECURSIVE JoinAlternatives(_)
JoinAlternatives(escaped) ==
    IF escaped = <<>> THEN <<>>
    ELSE IF Len(escaped) = 1 THEN escaped[1]
    ELSE escaped[1] \o <<"|">> \o JoinAlternatives(Tail(escaped))

KeywordPattern(kws) == JoinAlternatives([i \in DOMAIN kws |-> EscapeRegex(kws[i])])

\* new RegExp(`\\b(${keywordPattern})\\b`, 'gi'): the alternatives of the group,
\* each a sequence of literal characters (a backslash makes the next character
\* literal, a bare | ends an alternative).
RECURSIVE ParseAlternatives(_, _, _)
ParseAlternatives(pattern, current, done) ==
    IF pattern = <<>> THEN Append(done, current)
    ELSE IF Head(pattern) = "\\"
    THEN ParseAlternatives(Tail(Tail(pattern)), Append(current, pattern[2]), done)
    ELSE IF Head(pattern) = "|"
    THEN ParseAlternatives(Tail(pattern), <<>>, Append(done, current))
    ELSE ParseAlternatives(Tail(pattern), Append(current, Head(pattern)), done)

\* \b at offset q of str: exactly one of the characters around q is a word
\* character (the ends of the string count as non-word).
IsWordChar(c) == c \in WordChars
WordBoundary(str, q) ==
    LET before == q >= 1 /\ IsWordChar(str[q])
        after == q < Len(str) /\ IsWordChar(str[q + 1])
    IN before # after

\* The literal alternative alt matches str at offset q, ignoring case.
AlternativeMatches(alt, str, q) ==
    /\ q + Len(alt) <= Len(str)
    /\ \A i \in DOMAIN alt : UpperChar(str[q + i]) = UpperChar(alt[i])

\* The end offset of the match of \b(alt1|alt2|...)\b at offset q of str, or
\* -1: the first alternative, in order, that matches and ends at a \b.
MatchEnd(alts, str, q) ==
    IF ~WordBoundary(str, q) THEN -1
    ELSE LET ok == {i \in DOMAIN alts :
                       /\ AlternativeMatches(alts[i], str, q)
                       /\ WordBoundary(str, q + Len(alts[i]))}
         IN IF ok = {} THEN -1
            ELSE q + Len(alts[CHOOSE i \in ok : \A j \in ok : i <= j])

\* A split by a pattern without a capturing group.
NoCapture(str, q, e) == <<>>

\* What split adds for the capturing group of a match from q to e.
Capture(str, q, e) == <<Slice(str, q, e)>>

\* text.split(regex): RegExp.prototype[Symbol.split], with p the end of the
\* last match and q the offset tried next.
RECURSIVE SplitFrom(_, _, _, _)
SplitFrom(alts, str, p, q) ==
    IF q >= Len(str) THEN <<Slice(str, p, Len(str))>>
    ELSE LET e == MatchEnd(alts, str, q) IN
         IF e = -1 \/ e = p THEN SplitFrom(alts, str, p, q + 1)
         ELSE <<Slice(str, p, q)>> \o Capture(str, q, e) \o SplitFrom(alts, str, e, e)

Split(str, alts) == SplitFrom(alts, str, 0, 0)

\* keywords.find(keyword => keyword.toLowerCase() === part.toLowerCase()):
\* the keyword found, in a sequence that is empty for undefined.
Find(kws, part) ==
    LET found == {i \in DOMAIN kws : ToLowerCase(kws[i]) = ToLowerCase(part)} IN
    IF found = {} THEN <<>>
    ELSE <<kws[CHOOSE i \in found : \A j \in found : i <= j]>>

\* The KeywordMatch of a part.
KeywordMatch(kws, part) ==
    LET matchingKeyword == Find(kws, part) IN
    [text |-> part,
     isKeyword |-> matchingKeyword # <<>> /\ matchingKeyword[1] # <<>>,
     originalKeyword |-> matchingKeyword]

PlainText(str) == <<[text |-> str, isKeyword |-> FALSE, originalKeyword |-> <<>>]>>

\* A result that keeps every part of the split.
EveryPart(parts) == parts

\* .filter(part => part.length > 0)
NonEmptyParts(parts) == SelectSeq(parts, LAMBDA part : Len(part) > 0)

\* matchKeywords(keywords, text)
MatchKeywordsOf(kws, str) ==
    IF kws = <<>> \/ str = <<>> THEN PlainText(str)
    ELSE LET keywordPattern == KeywordPattern(kws) IN
         IF keywordPattern = <<>> THEN PlainText(str)
         ELSE LET parts == Split(str, ParseAlternatives(keywordPattern, <<>>, <<>>))
                  kept == NonEmptyParts(parts)
              IN [i \in DOMAIN kept |-> KeywordMatch(kws, kept[i])]

\* The call of matchKeywords(keywords, text) returns.
MatchKeywords ==
    /\ ~returned
    /\ matches' = MatchKeywordsOf(keywords, text)
    /\ returned' = TRUE
    /\ UNCHANGED <<keywords, text>>

\* ----------------------------------------------------------- meeting context
MeetingIds == 1..MaxMeetings
InitialMeetings == 1..(MaxMeetings - 1)

\* The list of meetings the API returns, newest first.
RECURSIVE ListOf(_)
ListOf(ids) ==
    IF ids = {} THEN <<>>
    ELSE LET newest == CHOOSE x \in ids : \A y \in ids : y <= x
         IN <<newest>> \o ListOf(ids \ {newest})

IdsOf(list) == {list[n] : n \in DOMAIN list}

\* An API call of the context: the operation, the meeting it is about, the
\* currentMeetingId its closure holds, whether the user confirmed leaving
\* before it was made, and how it ended.
Call(op, mid, seen, confirmed) ==
    [op |-> op, id |-> mid, seen |-> seen, confirmed |-> confirmed,
     status |-> "pending"]

NoHandler == [op |-> "none", id |-> 0]

PendingCalls(op) ==
    {n \in DOMAIN calls : calls[n].op = op /\ calls[n].status = "pending"}

Settle(n, ok) == [calls EXCEPT ![n].status = IF ok THEN "ok" ELSE "failed"]

\* The id the server gives to the next meeting created.
NextMeetingId ==
    Cardinality(InitialMeetings) + 1 +
    Cardinality({n \in DOMAIN calls : calls[n].op = "create" /\ calls[n].status = "ok"})

\* The outcomes a request about meeting mid can have: it may always fail, and
\* it succeeds only for a meeting the server holds.
Outcomes(mid) == IF mid \in server THEN BOOLEAN ELSE {FALSE}

\* isInActiveMeeting
IsInActiveMeeting == currentMeetingMode = "join" /\ currentMeetingId # 0

\* The list is shown and no dialog covers it.
ListShown == ~isLoading /\ ~isCreateDialogOpen /\ ~isConfirmDialogOpen

\* MeetingDetails after its meetingId prop changed from prev to mid: the
\* effect calls loadMeetingDetails.
DetailsEffect(prev, mid) ==
    IF mid = prev
    THEN UNCHANGED <<detailsMeeting, detailsLoading, detailsError, loads>>
    ELSE IF mid = 0
    THEN /\ detailsLoading' = FALSE
         /\ UNCHANGED <<detailsMeeting, detailsError, loads>>
    ELSE /\ Len(loads) < MaxLoads
         /\ detailsLoading' = TRUE
         /\ detailsError' = FALSE
         /\ loads' = Append(loads, [id |-> mid, status |-> "pending"])
         /\ UNCHANGED detailsMeeting

\* getById of MeetingDetails settles.
DetailsLoaded(n, ok) ==
    /\ n \in DOMAIN loads
    /\ loads[n].status = "pending"
    /\ ok \in Outcomes(loads[n].id)
    /\ loads' = [loads EXCEPT ![n].status = IF ok THEN "ok" ELSE "failed"]
    /\ IF ok
       THEN detailsMeeting' = loads[n].id /\ UNCHANGED detailsError
       ELSE detailsError' = TRUE /\ UNCHANGED detailsMeeting
    /\ detailsLoading' = FALSE
    /\ UNCHANGED <<server, meetings, currentMeetingId, currentMeeting,
                   currentMeetingMode, isLoading, error, isCreateDialogOpen,
                   isConfirmDialogOpen, confirmResolve, calls>>

\* refreshMeetings settles (it is called when the page is mounted).
RefreshSettled(n, ok) ==
    /\ n \in PendingCalls("refresh")
    /\ calls' = Settle(n, ok)
    /\ IF ok
       THEN meetings' = ListOf(server) /\ UNCHANGED error
       ELSE error' = TRUE /\ UNCHANGED meetings
    /\ isLoading' = FALSE
    /\ UNCHANGED <<server, currentMeetingId, currentMeeting, currentMeetingMode,
                   isCreateDialogOpen, isConfirmDialogOpen, confirmResolve,
                   detailsMeeting, detailsLoading, detailsError, loads>>

\* MeetingList.handleSelectMeeting: in an active meeting the confirmation is
\* requested and the handler waits, else selectMeeting is called.
HandleSelectMeeting(mid) ==
    /\ ListShown
    /\ mid \in IdsOf(meetings)
    /\ Len(calls) < MaxCalls
    /\ IF IsInActiveMeeting
       THEN /\ confirmResolve' = [op |-> "select", id |-> mid]
            /\ isConfirmDialogOpen' = TRUE
            /\ UNCHANGED calls
       ELSE /\ calls' = Append(calls, Call("select", mid, currentMeetingId, FALSE))
            /\ UNCHANGED <<confirmResolve, isConfirmDialogOpen>>
    /\ UNCHANGED <<server, meetings, currentMeetingId, currentMeeting,
                   currentMeetingMode, isLoading, error, isCreateDialogOpen,
                   detailsMeeting, detailsLoading, detailsError, loads>>

\* MeetingList.handleJoinMeeting: the confirmation is requested when another
\* meeting is active.
HandleJoinMeeting(mid) ==
    /\ ListShown
    /\ mid \in IdsOf(meetings)
    /\ Len(calls) < MaxCalls
    /\ IF IsInActiveMeeting /\ currentMeetingId # mid
       THEN /\ confirmResolve' = [op |-> "join", id |-> mid]
            /\ isConfirmDialogOpen' = TRUE
            /\ UNCHANGED calls
       ELSE /\ calls' = Append(calls, Call("join", mid, currentMeetingId, FALSE))
            /\ UNCHANGED <<confirmResolve, isConfirmDialogOpen>>
    /\ UNCHANGED <<server, meetings, currentMeetingId, currentMeeting,
                   currentMeetingMode, isLoading, error, isCreateDialogOpen,
                   detailsMeeting, detailsLoading, detailsError, loads>>

\* handleConfirmLeave: the waiting handler goes on to selectMeeting or
\* joinMeeting.
HandleConfirmLeave ==
    /\ isConfirmDialogOpen
    /\ Len(calls) < MaxCalls
    /\ calls' = IF confirmResolve = NoHandler THEN calls
                ELSE Append(calls, Call(confirmResolve.op, confirmResolve.id,
                                        currentMeetingId, TRUE))
    /\ isConfirmDialogOpen' = FALSE
    /\ confirmResolve' = NoHandler
    /\ UNCHANGED <<server, meetings, currentMeetingId, currentMeeting,
                   currentMeetingMode, isLoading, error, isCreateDialogOpen,
                   detailsMeeting, detailsLoading, detailsError, loads>>

\* handleCancelLeave: the waiting handler returns.
HandleCancelLeave ==
    /\ isConfirmDialogOpen
    /\ isConfirmDialogOpen' = FALSE
    /\ confirmResolve' = NoHandler
    /\ UNCHANGED <<server, meetings, currentMeetingId, currentMeeting,
                   currentMeetingMode, isLoading, error, isCreateDialogOpen,
                   calls, detailsMeeting, detailsLoading, detailsError, loads>>

\* selectMeeting or joinMeeting after loadMeetingDetails settled: null makes
\* it return false, a meeting becomes the current one in the call's mode.
MeetingLoadSettled(n, ok) ==
    /\ n \in PendingCalls("select") \cup PendingCalls("join")
    /\ ok \in Outcomes(calls[n].id)
    /\ calls' = Settle(n, ok)
    /\ IF ok
       THEN /\ currentMeetingId' = calls[n].id
            /\ currentMeeting' = calls[n].id
            /\ currentMeetingMode' = IF calls[n].op = "join" THEN "join" ELSE "view"
            /\ DetailsEffect(currentMeetingId, calls[n].id)
       ELSE UNCHANGED <<currentMeetingId, currentMeeting, currentMeetingMode,
                        detailsMeeting, detailsLoading, detailsError, loads>>
    /\ UNCHANGED <<server, meetings, isLoading, error, isCreateDialogOpen,
                   isConfirmDialogOpen, confirmResolve>>

\* handleCreateClick
HandleCreateClick ==
    /\ ListShown
    /\ isCreateDialogOpen' = TRUE
    /\ UNCHANGED <<server, meetings, currentMeetingId, currentMeeting,
                   currentMeetingMode, isLoading, error, isConfirmDialogOpen,
                   confirmResolve, calls, detailsMeeting, detailsLoading,
                   detailsError, loads>>

\* handleCloseDialog
HandleCloseDialog ==
    /\ isCreateDialogOpen
    /\ isCreateDialogOpen' = FALSE
    /\ UNCHANGED <<server, meetings, currentMeetingId, currentMeeting,
                   currentMeetingMode, isLoading, error, isConfirmDialogOpen,
                   confirmResolve, calls, detailsMeeting, detailsLoading,
                   detailsError, loads>>

\* MeetingForm.handleSubmit up to the await: createMeeting is called.
HandleSubmit ==
    /\ isCreateDialogOpen
    /\ ~isLoading
    /\ Len(calls) + 1 < MaxCalls
    /\ NextMeetingId + Cardinality(PendingCalls("create")) <= MaxMeetings
    /\ calls' = Append(calls, Call("create", 0, currentMeetingId, FALSE))
    /\ isLoading' = TRUE
    /\ error' = FALSE
    /\ UNCHANGED <<server, meetings, currentMeetingId, currentMeeting,
                   currentMeetingMode, isCreateDialogOpen, isConfirmDialogOpen,
                   confirmResolve, detailsMeeting, detailsLoading, detailsError,
                   loads>>

\* createMeeting settles; on success the form calls onMeetingCreated, which
\* closes the dialog and joins the new meeting.
MeetingCreated(n, ok) ==
    /\ n \in PendingCalls("create")
    /\ Len(calls) < MaxCalls
    /\ IF ok
       THEN /\ server' = server \cup {NextMeetingId}
            /\ meetings' = <<NextMeetingId>> \o meetings
            /\ isCreateDialogOpen' = FALSE
            /\ calls' = Append([Settle(n, ok) EXCEPT ![n].id = NextMeetingId],
                               Call("join", NextMeetingId, currentMeetingId, FALSE))
            /\ UNCHANGED error
       ELSE /\ error' = TRUE
            /\ calls' = Settle(n, ok)
            /\ UNCHANGED <<server, meetings, isCreateDialogOpen>>
    /\ isLoading' = FALSE
    /\ UNCHANGED <<currentMeetingId, currentMeeting, currentMeetingMode,
                   isConfirmDialogOpen, confirmResolve, detailsMeeting,
                   detailsLoading, detailsError, loads>>

\* deleteMeeting(mid) up to the await; the callback holds the
\* currentMeetingId of the render it was created in.
DeleteMeeting(mid) ==
    /\ ListShown
    /\ mid \in IdsOf(meetings)
    /\ Len(calls) < MaxCalls
    /\ calls' = Append(calls, Call("delete", mid, currentMeetingId, FALSE))
    /\ UNCHANGED <<server, meetings, currentMeetingId, currentMeeting,
                   currentMeetingMode, isLoading, error, isCreateDialogOpen,
                   isConfirmDialogOpen, confirmResolve, detailsMeeting,
                   detailsLoading, detailsError, loads>>

\* The meeting the callback compares with the deleted one.
CurrentSeenBy(call) == call.seen

\* deleteMeeting after the await: the meeting leaves the list and, when it is
\* the current one for the callback, leaveMeeting is called; a failure is
\* rethrown.
MeetingDeleted(n, ok) ==
    /\ n \in PendingCalls("delete")
    /\ ok \in Outcomes(calls[n].id)
    /\ calls' = Settle(n, ok)
    /\ IF ok
       THEN /\ server' = server \ {calls[n].id}
            /\ meetings' = SelectSeq(meetings, LAMBDA x : x # calls[n].id)
            /\ IF CurrentSeenBy(calls[n]) = calls[n].id
               THEN /\ currentMeetingId' = 0
                    /\ currentMeeting' = 0
                    /\ currentMeetingMode' = "view"
                    /\ DetailsEffect(currentMeetingId, 0)
               ELSE UNCHANGED <<currentMeetingId, currentMeeting, currentMeetingMode,
                                detailsMeeting, detailsLoading, detailsError, loads>>
       ELSE UNCHANGED <<server, meetings, currentMeetingId, currentMeeting,
                        currentMeetingMode, detailsMeeting, detailsLoading,
                        detailsError, loads>>
    /\ UNCHANGED <<isLoading, error, isCreateDialogOpen, isConfirmDialogOpen,
                   confirmResolve>>

\* ------------------------------------------------------------------ actions
\* The websocket of the meeting opens.
WsOpen ==
    /\ wsState = "connecting"
    /\ wsState' = "open"
    /\ lastEvent' = Event("wsopen", 0, FALSE, vadState, "", chunkCount)
    /\ UNCHANGED <<now, env, isRecording, closureIsRecording, audioStatus, vadState,
                   mediaRecorder, recorders, chunkCount, processingInterval,
                   currentChunks, speechStartTime, lastSpeechTime,
                   consecutiveSpeechTime, consecutiveSilenceTime, sent, session,
                   speechRun, silenceRun>>

\* The websocket closes (server, network, or the page closing it).
WsClose ==
    /\ wsState \in {"connecting", "open"}
    /\ wsState' = "closed"
    /\ lastEvent' = Event("wsclose", 0, FALSE, vadState, "", chunkCount)
    /\ UNCHANGED <<now, env, isRecording, closureIsRecording, audioStatus, vadState,
                   mediaRecorder, recorders, chunkCount, processingInterval,
                   currentChunks, speechStartTime, lastSpeechTime,
                   consecutiveSpeechTime, consecutiveSilenceTime, sent, session,
                   speechRun, silenceRun>>

\* startRecording up to the await: the start button exists only while
\* isRecording is false and is disabled while permission is requested; without
\* an open websocket the handler alerts and returns.
StartRecording ==
    /\ ~isRecording
    /\ audioStatus # "requesting-permission"
    /\ CanStartWith(wsState)
    /\ session < MaxSessions
    /\ audioStatus' = "requesting-permission"
    /\ closureIsRecording' = isRecording
    /\ lastEvent' = Event("start", 0, FALSE, vadState, "", chunkCount)
    /\ UNCHANGED <<now, env, wsState, isRecording, vadState, mediaRecorder,
                   recorders, chunkCount, processingInterval, currentChunks,
                   speechStartTime, lastSpeechTime, consecutiveSpeechTime,
                   consecutiveSilenceTime, sent, session, speechRun, silenceRun>>

\* startRecording after getUserMedia resolved: counters reset, the live
\* transcript cleared, timer created.
GetUserMediaGranted ==
    /\ audioStatus = "requesting-permission"
    /\ audioStatus' = "waiting-for-speech"
    /\ isRecording' = TRUE
    /\ vadState' = WAITING_FOR_SPEECH
    /\ chunkCount' = 0
    /\ consecutiveSpeechTime' = 0
    /\ consecutiveSilenceTime' = 0
    /\ processingInterval' = TRUE
    /\ session' = session + 1
    /\ speechRun' = 0
    /\ silenceRun' = 0
    /\ lastEvent' = Event("granted", 0, FALSE, vadState, "", chunkCount)
    /\ UNCHANGED <<now, env, wsState, closureIsRecording, mediaRecorder, recorders,
                   currentChunks, speechStartTime, lastSpeechTime, sent>>
    /\ ClearRealTimeTranscription
    /\ UNCHANGED <<jobs, registered, msgCount, lastMessage>>

\* A denial that leaves the volume timer running.
GetUserMediaDeniedTimer ==
    /\ audioStatus = "requesting-permission"
    /\ audioStatus' = "error"
    /\ processingInterval' = TRUE
    /\ lastEvent' = Event("denied", 0, FALSE, vadState, "", chunkCount)
    /\ UNCHANGED <<now, env, wsState, isRecording, closureIsRecording, vadState,
                   mediaRecorder, recorders, chunkCount, currentChunks,
                   speechStartTime, lastSpeechTime, consecutiveSpeechTime,
                   consecutiveSilenceTime, sent, session, speechRun, silenceRun>>

\* startRecording after getUserMedia rejected.
GetUserMediaDenied ==
    /\ audioStatus = "requesting-permission"
    /\ audioStatus' = "error"
    /\ lastEvent' = Event("denied", 0, FALSE, vadState, "", chunkCount)
    /\ UNCHANGED <<now, env, wsState, isRecording, closureIsRecording, vadState,
                   mediaRecorder, recorders, chunkCount, processingInterval,
                   currentChunks, speechStartTime, lastSpeechTime,
                   consecutiveSpeechTime, consecutiveSilenceTime, sent, session,
                   speechRun, silenceRun>>

\* The setInterval callback, CHECK_INTERVAL_MS after the previous one.  With a
\* scripted signal the task of a stopped recorder runs before the next tick.
Tick ==
    /\ processingInterval
    /\ now + CHECK_INTERVAL_MS <= TimeLimit
    /\ ~env.free => Pending = {}
    /\ \E isSpeech \in SpeechSamples(now + CHECK_INTERVAL_MS) :
        LET t == now + CHECK_INTERVAL_MS IN
        /\ now' = t
        /\ speechRun' = IF isSpeech
                        THEN MinOf(speechRun + 1, SPEECH_START_DELAY_MS \div CHECK_INTERVAL_MS)
                        ELSE 0
        /\ silenceRun' = IF isSpeech
                         THEN 0
                         ELSE MinOf(silenceRun + 1, SPEECH_END_DELAY_MS \div CHECK_INTERVAL_MS)
        /\ IF vadState = WAITING_FOR_SPEECH THEN
              LET consec == WaitingSpeechTime(isSpeech, consecutiveSpeechTime) IN
              /\ consecutiveSpeechTime' = consec
              /\ consecutiveSilenceTime' = 0
              /\ IF isSpeech /\ SpeechStartReached(consec)
                 THEN /\ vadState' = RECORDING_SPEECH
                      /\ audioStatus' = "recording-speech"
                      /\ StartNewRecording(t, recorders)
                 ELSE /\ audioStatus' = "waiting-for-speech"
                      /\ UNCHANGED <<vadState, recorders, currentChunks, mediaRecorder,
                                     speechStartTime, lastSpeechTime>>
           ELSE IF vadState = RECORDING_SPEECH THEN
              LET last == LastSpeechAfterSample(isSpeech, t, lastSpeechTime)
                  bySilence == SilenceEndReached(t, last)
                  byMax == MaxDurationReached(t, speechStartTime)
              IN
              /\ lastSpeechTime' = last
              /\ consecutiveSilenceTime' =
                    IF isSpeech THEN 0 ELSE consecutiveSilenceTime + CHECK_INTERVAL_MS
              /\ IF bySilence \/ byMax
                 THEN /\ vadState' = CONFIRMING_END
                      /\ audioStatus' = "processing"
                      /\ StopCurrentRecording(t, IF bySilence THEN "silence" ELSE "max")
                 ELSE /\ audioStatus' = "recording-speech"
                      /\ UNCHANGED <<vadState, recorders>>
              /\ UNCHANGED <<consecutiveSpeechTime, currentChunks, mediaRecorder,
                             speechStartTime>>
           ELSE
              /\ audioStatus' = "processing"
              /\ UNCHANGED <<vadState, recorders, currentChunks, mediaRecorder,
                             speechStartTime, lastSpeechTime, consecutiveSpeechTime,
                             consecutiveSilenceTime>>
        /\ lastEvent' = Event("tick", mediaRecorder', isSpeech, vadState, "", chunkCount)
        /\ UNCHANGED <<env, wsState, isRecording, closureIsRecording, chunkCount,
                       processingInterval, sent, session>>

\* The task of stopped recorder r: dataavailable, then stop.  ondataavailable
\* pushes the blob to currentChunksRef; onstop, when stopCurrentRecording has
\* set it, builds the segment, sends it through sendAudioChunk (which may find
\* the websocket not open, and whose websocket.send may throw) and leaves
\* CONFIRMING_END.  With a scripted signal websocket.send does not throw.
FinalizeRecorder(r) ==
    /\ r \in Pending
    /\ \E hasData \in DataSizes(recorders[r]) :
        LET rec == recorders[r]
            pushed == IF hasData THEN Append(currentChunks, r) ELSE currentChunks
        IN
        IF ~rec.onstop.set THEN
            /\ currentChunks' = pushed
            /\ recorders' = [recorders EXCEPT ![r] =
                    [@ EXCEPT !.pending = FALSE, !.outcome = "nohandler"]]
            /\ lastEvent' = Event("finalize", r, FALSE, vadState, "nohandler", chunkCount)
            /\ UNCHANGED <<now, env, wsState, isRecording, closureIsRecording,
                           audioStatus, vadState, mediaRecorder, chunkCount,
                           processingInterval, speechStartTime, lastSpeechTime,
                           consecutiveSpeechTime, consecutiveSilenceTime, sent,
                           session, speechRun, silenceRun>>
        ELSE
            LET long == MeetsMinDuration(rec.onstop.duration)
                attempt == long /\ WebSocketAvailable(wsState)
            IN
            \E isSpeech \in SpeechSamples(now),
               sendOk \in IF attempt /\ env.free THEN BOOLEAN ELSE {TRUE} :
                LET outcome == IF ~long THEN "short"
                               ELSE IF ~attempt THEN "nows"
                               ELSE IF sendOk THEN "sent" ELSE "threw"
                    recs == [recorders EXCEPT ![r] =
                               [@ EXCEPT !.pending = FALSE, !.outcome = outcome]]
                IN
                /\ chunkCount' = IF attempt THEN NextChunkCount(chunkCount) ELSE chunkCount
                /\ sent' = IF attempt /\ sendOk
                           THEN Append(sent, [rec |-> r, payload |-> SpeechBlob(pushed),
                                              seq |-> chunkCount, ws |-> wsState])
                           ELSE sent
                /\ IF ContinueRecording(isSpeech, rec.onstop.isRecording)
                   THEN /\ vadState' = RECORDING_SPEECH
                        /\ StartNewRecording(now, recs)
                        /\ UNCHANGED <<consecutiveSpeechTime, consecutiveSilenceTime>>
                   ELSE /\ vadState' = WAITING_FOR_SPEECH
                        /\ consecutiveSpeechTime' = 0
                        /\ consecutiveSilenceTime' = 0
                        /\ recorders' = recs
                        /\ currentChunks' = pushed
                        /\ UNCHANGED <<mediaRecorder, speechStartTime, lastSpeechTime>>
                /\ lastEvent' = Event("finalize", r, isSpeech, vadState, outcome, chunkCount)
                /\ UNCHANGED <<now, env, wsState, isRecording, closureIsRecording,
                               audioStatus, processingInterval, session, speechRun,
                               silenceRun>>

\* stopRecording: the timer is cleared and an active recorder is stopped as it
\* is (its onstop is whatever was set before).
StopRecording ==
    /\ isRecording
    /\ processingInterval' = FALSE
    /\ recorders' =
          IF mediaRecorder # 0 /\ recorders[mediaRecorder].state # "inactive"
          THEN [recorders EXCEPT ![mediaRecorder] =
                   StoppedRecorder(@, now, "user", @.onstop)]
          ELSE recorders
    /\ isRecording' = FALSE
    /\ audioStatus' = "stopped"
    /\ vadState' = WAITING_FOR_SPEECH
    /\ lastEvent' = Event("stop", mediaRecorder, FALSE, vadState, "", chunkCount)
    /\ UNCHANGED <<now, env, wsState, closureIsRecording, mediaRecorder, chunkCount,
                   currentChunks, speechStartTime, lastSpeechTime,
                   consecutiveSpeechTime, consecutiveSilenceTime, sent, session,
                   speechRun, silenceRun>>

\* ------------------------------------------------------------ specifications
InitRefs ==
    /\ now = Epoch
    /\ isRecording = FALSE
    /\ closureIsRecording = FALSE
    /\ audioStatus = "idle"
    /\ vadState = WAITING_FOR_SPEECH
    /\ mediaRecorder = 0
    /\ recorders = <<>>
    /\ chunkCount = 0
    /\ processingInterval = FALSE
    /\ currentChunks = <<>>
    /\ speechStartTime = 0
    /\ lastSpeechTime = 0
    /\ consecutiveSpeechTime = 0
    /\ consecutiveSilenceTime = 0
    /\ sent = <<>>
    /\ session = 0
    /\ speechRun = 0
    /\ silenceRun = 0
    /\ lastEvent = NoEvent

\* The meeting page before the meeting is loaded: no job submitted, no
\* message received, an empty transcript.
InitTranscript ==
    /\ jobs = [k \in Segments |-> QueuedJob]
    /\ registered = FALSE
    /\ chunks = <<>>
    /\ isActive = FALSE
    /\ msgCount = 0
    /\ lastMessage = NoMessage

InitSequencer ==
    /\ totalSubmitted = 0
    /\ totalCompleted = 0
    /\ pendingResults = <<>>
    /\ transcriptText = <<>>
    /\ notified = {}
    /\ notifications = 0
    /\ lastNotification = -1

InitQueue ==
    /\ queue = <<>>
    /\ enqueued = 0
    /\ jobStatus = [j \in JobIds |-> "none"]
    /\ workers = [w \in Workers |-> IdleWorker]
    /\ claimedBy = [j \in JobIds |-> <<>>]
    /\ processed = [j \in JobIds |-> 0]

\* The meeting page as mounted: refreshMeetings is in flight.
InitMeetings ==
    /\ server = InitialMeetings
    /\ meetings = <<>>
    /\ currentMeetingId = 0
    /\ currentMeeting = 0
    /\ currentMeetingMode = "view"
    /\ isLoading = TRUE
    /\ error = FALSE
    /\ isCreateDialogOpen = FALSE
    /\ isConfirmDialogOpen = FALSE
    /\ confirmResolve = NoHandler
    /\ calls = <<Call("refresh", 0, 0, FALSE)>>
    /\ detailsMeeting = 0
    /\ detailsLoading = FALSE
    /\ detailsError = FALSE
    /\ loads = <<>>

InitMatcher ==
    /\ keywords = <<>>
    /\ text = <<>>
    /\ matches = <<>>
    /\ returned = FALSE

\* The component as mounted, any microphone signal, any scheduling.
Init ==
    /\ InitRefs
    /\ env = FreeSignal
    /\ wsState = "connecting"
    /\ InitTranscript
    /\ InitSequencer
    /\ InitQueue
    /\ InitMatcher
    /\ InitMeetings

Next ==
    \/ WsOpen /\ UNCHANGED beyondCapture
    \/ WsClose /\ UNCHANGED beyondCapture
    \/ StartRecording /\ UNCHANGED beyondCapture
    \/ GetUserMediaGranted /\ UNCHANGED beyondTranscript
    \/ GetUserMediaDenied /\ UNCHANGED beyondCapture
    \/ Tick /\ UNCHANGED beyondCapture
    \/ \E r \in Pending : FinalizeRecorder(r) /\ UNCHANGED beyondCapture
    \/ StopRecording /\ UNCHANGED beyondCapture

Spec == Init /\ [][Next]_vars

\* One utterance spoken from the mount on, with at most one pause, into a
\* capture that is started once and left running on an open websocket.
Utterances ==
    {Script(Epoch + u, Epoch + p, l) :
        u \in {29900, 30000, 30100, 30200, 30300, 45000},
        p \in {1000, 29500},
        l \in {0, 300, 1000}}

InitLong ==
    /\ InitRefs
    /\ env \in Utterances
    /\ wsState = "open"
    /\ InitTranscript
    /\ InitSequencer
    /\ InitQueue
    /\ InitMatcher
    /\ InitMeetings

NextLong ==
    \/ StartRecording /\ UNCHANGED beyondCapture
    \/ GetUserMediaGranted /\ UNCHANGED beyondTranscript
    \/ Tick /\ UNCHANGED beyondCapture
    \/ \E r \in Pending : FinalizeRecorder(r) /\ UNCHANGED beyondCapture

SpecLong == InitLong /\ [][NextLong]_vars

beyondLive == <<captureVars, beyondTranscript>>

NextTranscript ==
    \/ WsOpen /\ UNCHANGED beyondCapture
    \/ WsClose /\ UNCHANGED beyondCapture
    \/ MeetingLoaded /\ UNCHANGED beyondLive
    \/ \E k \in Segments : \E words \in SegmentTexts(k) :
          JobCompleted(k, words) /\ UNCHANGED beyondLive
    \/ \E k \in Segments : JobFailed(k) /\ UNCHANGED beyondLive
    \/ \E k \in Segments : OnMessage(StatusMessage(k)) /\ UNCHANGED beyondLive
    \/ \E m \in OtherMessages : OnMessage(m) /\ UNCHANGED beyondLive
    \/ ClearTranscription /\ UNCHANGED beyondLive

SpecTranscript == Init /\ [][NextTranscript]_vars

\* The sequencer of one meeting: submissions, and completion notifications
\* in any order, repeated, and for sequence numbers not submitted (yet).
beyondSequencer == <<captureVars, transcriptVars, queueVars, matcherVars, meetingVars>>

NextSequencer ==
    \/ Submit /\ UNCHANGED beyondSequencer
    \/ \E seq \in SequenceNumbers :
          Notify(seq, SegmentText(seq)) /\ UNCHANGED beyondSequencer

SpecSequencer == Init /\ [][NextSequencer]_vars

\* The queue shared by the workers of the pool, each blocking on dequeue.
beyondQueue == <<captureVars, transcriptVars, sequencerVars, matcherVars, meetingVars>>

NextQueue ==
    \/ Enqueue /\ UNCHANGED beyondQueue
    \/ \E w \in Workers : Dequeue(w) /\ UNCHANGED beyondQueue
    \/ \E w \in Workers : MarkProcessing(w) /\ UNCHANGED beyondQueue
    \/ \E w \in Workers : \E status \in {"completed", "failed"} :
          FinishJob(w, status) /\ UNCHANGED beyondQueue

SpecQueue == Init /\ [][NextQueue]_vars

\* matchKeywords called on any list of at most MaxKeywords keywords of the
\* pool and any text of at most MaxTextLen characters.
beyondMatcher == <<captureVars, transcriptVars, sequencerVars, queueVars, meetingVars>>

InitMatching ==
    /\ InitRefs
    /\ env = FreeSignal
    /\ wsState = "connecting"
    /\ InitTranscript
    /\ InitSequencer
    /\ InitQueue
    /\ keywords \in SeqsUpTo(KeywordPool, MaxKeywords)
    /\ text \in SeqsUpTo(Alphabet, MaxTextLen)
    /\ matches = <<>>
    /\ returned = FALSE
    /\ InitMeetings

NextMatcher == MatchKeywords /\ UNCHANGED beyondMatcher

SpecMatcher == InitMatching /\ [][NextMatcher]_vars

beyondMeetings == <<captureVars, transcriptVars, sequencerVars, queueVars, matcherVars>>

NextMeetings ==
    \/ \E n \in DOMAIN calls : \E ok \in BOOLEAN :
          RefreshSettled(n, ok) /\ UNCHANGED beyondMeetings
    \/ \E mid \in MeetingIds : HandleSelectMeeting(mid) /\ UNCHANGED beyondMeetings
    \/ \E mid \in MeetingIds : HandleJoinMeeting(mid) /\ UNCHANGED beyondMeetings
    \/ HandleConfirmLeave /\ UNCHANGED beyondMeetings
    \/ HandleCancelLeave /\ UNCHANGED beyondMeetings
    \/ \E n \in DOMAIN calls : \E ok \in BOOLEAN :
          MeetingLoadSettled(n, ok) /\ UNCHANGED beyondMeetings
    \/ HandleCreateClick /\ UNCHANGED beyondMeetings
    \/ HandleCloseDialog /\ UNCHANGED beyondMeetings
    \/ HandleSubmit /\ UNCHANGED beyondMeetings
    \/ \E n \in DOMAIN calls : \E ok \in BOOLEAN :
          MeetingCreated(n, ok) /\ UNCHANGED beyondMeetings
    \/ \E mid \in MeetingIds : DeleteMeeting(mid) /\ UNCHANGED beyondMeetings
    \/ \E n \in DOMAIN calls : \E ok \in BOOLEAN :
          MeetingDeleted(n, ok) /\ UNCHANGED beyondMeetings
    \/ \E n \in DOMAIN loads : \E ok \in BOOLEAN :
          DetailsLoaded(n, ok) /\ UNCHANGED beyondMeetings

SpecMeetings == Init /\ [][NextMeetings]_vars

\* ------------------------------------------------------------------- claims
Recs == 1..Len(recorders)
Stopped(r) == recorders[r].state = "inactive"
Finalized(r) == Stopped(r) /\ ~recorders[r].pending
\* Time from recorder.start() to the stop request.
Elapsed(r) == recorders[r].stoppedAt - recorders[r].startedAt
SentFor(r) == {i \in 1..Len(sent) : sent[i].rec = r}
\* A recording was started by the handler that ran last.
StartedNow ==
    /\ vadState = RECORDING_SPEECH
    /\ mediaRecorder = Len(recorders)
    /\ mediaRecorder # 0
    /\ recorders[mediaRecorder].state = "recording"
    /\ recorders[mediaRecorder].startedAt = now
    /\ lastEvent.rec = mediaRecorder
OnStopRan == lastEvent.name = "finalize" /\ lastEvent.outcome # "nohandler"

\* C1: a recording in progress when stopRecording is invoked is finalized and,
\* when it lasted at least MIN_CHUNK_DURATION_MS (and the websocket is open),
\* it is sent as a segment.
C1_StopFlushesRecording ==
    \A r \in Recs :
        (recorders[r].via = "user" /\ Finalized(r) /\ wsState = "open"
            /\ Elapsed(r) >= MIN_CHUNK_DURATION_MS)
        => SentFor(r) # {}

\* C2: after onstop of a recording force-ended by the max-duration path, with
\* the volume above threshold, the state is RECORDING_SPEECH with a fresh
\* recording started in that callback; after any other onstop it is
\* WAITING_FOR_SPEECH.
C2_MaxDurationRestarts ==
    OnStopRan =>
        IF recorders[lastEvent.rec].via = "max" /\ lastEvent.speech
        THEN /\ vadState = RECORDING_SPEECH
             /\ mediaRecorder # lastEvent.rec
             /\ recorders[mediaRecorder].state = "recording"
             /\ recorders[mediaRecorder].startedAt = now
        ELSE vadState = WAITING_FOR_SPEECH

\* The 45 s utterance without a pause, once capture has come to rest.
LongUtteranceOver ==
    /\ ~env.free
    /\ env.speechUntil = Epoch + 45000
    /\ env.pauseLen = 0
    /\ now >= Epoch + 47000
    /\ Pending = {}

\* C3: 45 s of continuous speech give exactly two sent segments, numbered
\* consecutively, the second recording starting at the instant the first one
\* is finalized.
C3_MaxDurationSplit ==
    LongUtteranceOver =>
        /\ Len(sent) = 2
        /\ sent[2].seq = sent[1].seq + 1
        /\ sent[1].rec = 1 /\ sent[2].rec = 2
        /\ recorders[2].startedAt = recorders[1].stoppedAt

\* The part of C3 that does not depend on the restart: two segments, numbered
\* 0 and 1, the first of MAX_CHUNK_DURATION_MS.
C3_TwoSegments ==
    LongUtteranceOver =>
        /\ Len(sent) = 2
        /\ sent[1].seq = 0 /\ sent[2].seq = 1
        /\ Elapsed(1) = MAX_CHUNK_DURATION_MS
        /\ recorders[2].startedAt = recorders[1].stoppedAt + SPEECH_START_DELAY_MS

\* The sequence numbers of the segments of capture session s, in sending order.
RECURSIVE SessionSeqs(_, _)
SessionSeqs(s, n) ==
    IF n = 0 THEN <<>>
    ELSE IF recorders[sent[n].rec].session = s
         THEN Append(SessionSeqs(s, n - 1), sent[n].seq)
         ELSE SessionSeqs(s, n - 1)

\* C4: the segments sent in one capture session are numbered 0, 1, 2, ... in
\* sending order; the counter is 0 after startRecording, advances by one for
\* a segment that is sent and stays for one that is discarded, dropped or
\* whose send fails.
C4_SequenceNumbers ==
    /\ \A s \in 1..session :
          LET q == SessionSeqs(s, Len(sent)) IN \A i \in 1..Len(q) : q[i] = i - 1
    /\ lastEvent.name = "granted" => chunkCount = 0
    /\ lastEvent.name = "finalize" =>
          chunkCount = IF lastEvent.outcome = "sent" THEN lastEvent.count + 1
                       ELSE lastEvent.count

\* C5: a recording that lasted less than MIN_CHUNK_DURATION_MS is never
\* submitted: no send happens for it and the counter is unchanged.
C5_ShortNeverSubmitted ==
    /\ \A r \in Recs :
          (Stopped(r) /\ Elapsed(r) < MIN_CHUNK_DURATION_MS) => SentFor(r) = {}
    /\ (lastEvent.name = "finalize" /\ Elapsed(lastEvent.rec) < MIN_CHUNK_DURATION_MS)
          => chunkCount = lastEvent.count
C5_Witness ==
    /\ lastEvent.name = "finalize"
    /\ Elapsed(lastEvent.rec) > 0
    /\ Elapsed(lastEvent.rec) < MIN_CHUNK_DURATION_MS
    /\ wsState = "open"

\* C6: in WAITING_FOR_SPEECH a recording starts exactly at the tick at which
\* the accumulated speech time reaches SPEECH_START_DELAY_MS, never after fewer
\* consecutive above-threshold samples than that takes; a sub-threshold sample
\* resets the accumulated time; nothing is sent before a recording exists.
C6_SpeechStart ==
    /\ (lastEvent.name = "tick" /\ lastEvent.from = WAITING_FOR_SPEECH) =>
          /\ StartedNow <=> consecutiveSpeechTime >= SPEECH_START_DELAY_MS
          /\ ~StartedNow => /\ vadState = WAITING_FOR_SPEECH
                            /\ consecutiveSpeechTime = speechRun * CHECK_INTERVAL_MS
                               \/ consecutiveSpeechTime < speechRun * CHECK_INTERVAL_MS
          /\ StartedNow => /\ lastEvent.speech
                           /\ speechRun * CHECK_INTERVAL_MS >= SPEECH_START_DELAY_MS
          /\ ~lastEvent.speech => consecutiveSpeechTime = 0
    /\ recorders = <<>> => sent = <<>> /\ currentChunks = <<>>
C6_Witness ==
    /\ lastEvent.name = "tick"
    /\ lastEvent.from = WAITING_FOR_SPEECH
    /\ StartedNow
    /\ speechRun = 2

\* C7: in RECORDING_SPEECH the recording is stopped, and the state becomes
\* CONFIRMING_END, at exactly the ticks at which the silence since the last
\* above-threshold sample is at least SPEECH_END_DELAY_MS or the recording has
\* lasted MAX_CHUNK_DURATION_MS; an above-threshold sample resets the silence.
C7_SpeechEnd ==
    (lastEvent.name = "tick" /\ lastEvent.from = RECORDING_SPEECH) =>
        LET r == lastEvent.rec
            due == \/ silenceRun * CHECK_INTERVAL_MS >= SPEECH_END_DELAY_MS
                   \/ now - recorders[r].startedAt >= MAX_CHUNK_DURATION_MS
        IN
        /\ r # 0
        /\ due => /\ vadState = CONFIRMING_END
                  /\ Stopped(r) /\ recorders[r].stoppedAt = now
        /\ ~due => /\ vadState = RECORDING_SPEECH
                   /\ recorders[r].state = "recording"
        /\ lastEvent.speech => (lastSpeechTime = now /\ silenceRun = 0)
C7_Witness ==
    /\ lastEvent.name = "tick"
    /\ lastEvent.from = RECORDING_SPEECH
    /\ vadState = CONFIRMING_END
    /\ recorders[lastEvent.rec].via = "max"
    /\ \E r \in Recs : recorders[r].via = "silence"

\* C8: the VAD state changes only along waiting -> recording, recording ->
\* confirming_end, confirming_end -> waiting, confirming_end -> recording and
\* the reset to waiting by stopRecording; a tick in CONFIRMING_END neither
\* starts nor stops a recording; a recording yields at most one segment.
C8_Transitions ==
    /\ (lastEvent.name # "none" /\ vadState # lastEvent.from) =>
          \/ lastEvent.from = WAITING_FOR_SPEECH /\ vadState = RECORDING_SPEECH
          \/ lastEvent.from = RECORDING_SPEECH /\ vadState = CONFIRMING_END
          \/ lastEvent.from = CONFIRMING_END /\ vadState = WAITING_FOR_SPEECH
          \/ lastEvent.from = CONFIRMING_END /\ vadState = RECORDING_SPEECH
          \/ lastEvent.name = "stop" /\ vadState = WAITING_FOR_SPEECH
    /\ (lastEvent.name = "tick" /\ lastEvent.from = CONFIRMING_END) =>
          /\ vadState = CONFIRMING_END
          /\ \A r \in Recs : /\ recorders[r].startedAt # now
                             /\ Stopped(r) => recorders[r].stoppedAt # now
    /\ \A r \in Recs : Cardinality(SentFor(r)) <= 1

\* C9: every sent payload holds exactly the data of the one recorder the
\* segment was recorded with.
C9_PayloadOfOneRecorder ==
    \A i \in 1..Len(sent) : sent[i].payload = <<sent[i].rec>>

\* C10: a segment finalized while the websocket is not open is dropped and
\* never sent; the state machine leaves CONFIRMING_END then as it does after
\* a successful send, and the timer goes on.
C10_DropWhenNotOpen ==
    /\ \A i \in 1..Len(sent) : sent[i].ws = "open"
    /\ \A r \in Recs : recorders[r].outcome = "nows" => SentFor(r) = {}
    /\ (OnStopRan /\ lastEvent.outcome \in {"nows", "sent"}) =>
          /\ vadState = WAITING_FOR_SPEECH
          /\ consecutiveSpeechTime = 0
          /\ consecutiveSilenceTime = 0
          /\ Finalized(lastEvent.rec)
    /\ (OnStopRan /\ lastEvent.outcome = "nows") =>
          /\ chunkCount = lastEvent.count
          /\ (processingInterval /\ now + CHECK_INTERVAL_MS <= TimeLimit) => ENABLED Tick
C10_Witness ==
    /\ OnStopRan
    /\ lastEvent.outcome = "nows"
    /\ wsState = "closed"
    /\ processingInterval

RECURSIVE InSequenceOrder(_)
InSequenceOrder(n) ==
    IF n = 0 THEN <<>>
    ELSE LET t == Trim(jobs[n - 1].text) IN
         InSequenceOrder(n - 1) \o
            (IF t = <<>> THEN <<>> ELSE <<[text |-> t, seq |-> n - 1]>>)

\* C12: in whatever order the completions arrive, the transcript is the
\* texts of sequence numbers 0..n-1 in sequence order, for the number n of
\* results applied: the result of k is never appended before those of 0..k-1.
C12_TranscriptInSequenceOrder ==
    \E n \in 0..MaxSegments :
        /\ \A k \in 0..(n - 1) : jobs[k].status = "completed"
        /\ chunks = InSequenceOrder(n)

\* C13: a completion delivered two or more times is applied once: its text
\* is in the transcript exactly once.
C13_DuplicateAppliedOnce ==
    \A k \in Segments : Cardinality({i \in DOMAIN chunks : chunks[i].seq = k}) <= 1

C14_PartialBuffering ==
    [][ notifications' = notifications + 1 =>
        LET seq == lastNotification' IN
        /\ seq > totalCompleted =>
              /\ transcriptText' = transcriptText
              /\ totalCompleted' = totalCompleted
              /\ seq \in DOMAIN pendingResults'
              /\ pendingResults'[seq] = <<Letters[seq + 1], " ">>
        /\ seq = totalCompleted =>
              /\ totalCompleted' > seq
              /\ \A k \in (seq + 1)..(totalCompleted' - 1) : k \in DOMAIN pendingResults
              /\ Len(transcriptText') = Len(transcriptText) + 2 * (totalCompleted' - seq)
              /\ \A k \in seq..(totalCompleted' - 1) :
                    transcriptText'[2 * k + 1] = Letters[k + 1]
        /\ \A k \in DOMAIN pendingResults' : k > totalCompleted'
        /\ (\A k \in SequenceNumbers :
                (\E h \in notified' : k <= h) => k \in notified')
              => pendingResults' = <<>>
      ]_vars
C14_Witness ==
    /\ totalCompleted = 3
    /\ lastNotification = 0
    /\ notifications = 3
    /\ pendingResults = <<>>
    /\ transcriptText = <<"A", " ", "B", " ", "C", " ">>

\* C15: totalCompleted <= totalSubmitted in every reachable state, whatever
\* the interleaving of submissions and notifications, repeated notifications
\* and notifications for sequence numbers at or beyond totalSubmitted included.
C15_CompletedAtMostSubmitted == totalCompleted <= totalSubmitted

\* C17: with N workers blocking on dequeue and M > N jobs, every job is
\* handed to exactly one worker exactly once: a job still queued has been
\* handed to nobody, a job no longer queued to exactly one worker, never two
\* workers hold the same job, and no job is processed twice.
C17_ClaimedExactlyOnce ==
    /\ \A j \in 1..enqueued :
          LET queuedAt == {i \in DOMAIN queue : queue[i] = j} IN
          /\ Cardinality(queuedAt) <= 1
          /\ queuedAt # {} => claimedBy[j] = <<>> /\ processed[j] = 0
          /\ queuedAt = {} => Len(claimedBy[j]) = 1
          /\ processed[j] <= 1
          /\ jobStatus[j] \in {"completed", "failed"} <=> processed[j] = 1
    /\ \A w1, w2 \in Workers :
          (w1 # w2 /\ workers[w1].job # 0) => workers[w1].job # workers[w2].job
    /\ \A w \in Workers :
          workers[w].job # 0 => claimedBy[workers[w].job] = <<w>>
C17_Witness ==
    /\ MaxJobs > MaxWorkers
    /\ enqueued = MaxJobs
    /\ queue = <<>>
    /\ \A j \in JobIds : Len(claimedBy[j]) = 1 /\ processed[j] = 1
    /\ \E j1, j2 \in JobIds : claimedBy[j1] # claimedBy[j2]

\* The offset in text at which part i of the result starts.
RECURSIVE PartOffset(_)
PartOffset(i) == IF i = 1 THEN 0 ELSE PartOffset(i - 1) + Len(matches[i - 1].text)

\* Letters compared without their case; the edge of a word at offset q of text.
SameLetter(c, d) ==
    \/ c = d
    \/ {c, d} = {"a", "A"}
    \/ {c, d} = {"b", "B"}
Letter(c) == c \in {"a", "A", "b", "B"}
WordEdge(q) ==
    (q >= 1 /\ Letter(text[q])) # (q < Len(text) /\ Letter(text[q + 1]))

\* Keyword k occurs in text from offset q on as a whole word, in any case.
OccursAt(k, q) ==
    /\ k # <<>>
    /\ q + Len(k) <= Len(text)
    /\ \A i \in DOMAIN k : SameLetter(text[q + i], k[i])
    /\ WordEdge(q)
    /\ WordEdge(q + Len(k))

ProperPrefix(k1, k2) ==
    /\ Len(k1) < Len(k2)
    /\ \A i \in DOMAIN k1 : SameLetter(k1[i], k2[i])

\* C18: where a keyword and a longer keyword it is a prefix of both match at
\* the start of a part, the part is the longer keyword, flagged, whatever the
\* order of the two in the list.
C18_LongerKeywordWins ==
    returned =>
        \A i \in DOMAIN matches : \A a, b \in DOMAIN keywords :
            ( /\ ProperPrefix(keywords[a], keywords[b])
              /\ OccursAt(keywords[a], PartOffset(i))
              /\ OccursAt(keywords[b], PartOffset(i)) )
            => /\ matches[i].isKeyword
               /\ Len(matches[i].text) = Len(keywords[b])

\* C19: a part is flagged isKeyword exactly when it is a whole-word
\* occurrence, in any case, of a keyword of the list; originalKeyword is then
\* a keyword of the list with the letters of the part, and is absent on a
\* part that is not flagged.
C19_FlaggedIffWholeWord ==
    returned =>
        \A i \in DOMAIN matches :
            LET part == matches[i]
                occurrences ==
                    {a \in DOMAIN keywords :
                        /\ Len(keywords[a]) = Len(part.text)
                        /\ OccursAt(keywords[a], PartOffset(i))}
            IN /\ part.isKeyword <=> occurrences # {}
               /\ part.isKeyword =>
                     \E a \in occurrences : part.originalKeyword = <<keywords[a]>>
               /\ ~part.isKeyword => part.originalKeyword = <<>>

\* The text fields of parts i.. of the result, concatenated.
RECURSIVE JoinedFrom(_)
JoinedFrom(i) ==
    IF i > Len(matches) THEN <<>> ELSE matches[i].text \o JoinedFrom(i + 1)

\* C20: the text fields of the returned parts, concatenated in order, are the
\* original text, also when keywords hold regex special characters.
C20_PartsJoinToText == returned => JoinedFrom(1) = text
C20_Witness ==
    /\ returned
    /\ Len(matches) >= 2
    /\ \E i \in DOMAIN matches :
          /\ matches[i].isKeyword
          /\ \E j \in DOMAIN matches[i].text : matches[i].text[j] = "+"

\* C21: when the text is not empty, no part returned by matchKeywords has an
\* empty text; when the keyword list or the text is empty, the result is one
\* part, not a keyword, holding the text.
C21_NoEmptyPart ==
    returned =>
        /\ text # <<>> => \A i \in DOMAIN matches : matches[i].text # <<>>
        /\ (keywords = <<>> \/ text = <<>>) =>
               /\ Len(matches) = 1
               /\ matches[1].text = text
               /\ ~matches[1].isKeyword

\* The whole text is a keyword between two word edges: the split has an empty
\* part before it and one after it, and the result has one part.
C21_Witness ==
    /\ returned
    /\ Len(text) >= 2
    /\ \A i \in DOMAIN text : Letter(text[i])
    /\ \E k \in DOMAIN keywords : keywords[k] = text
    /\ Len(matches) = 1
    /\ matches[1].isKeyword

\* C22: the live transcript of a joined meeting is the trimmed texts of the
\* completed transcription_status frames that have words, in arrival order
\* since the last clear: such a frame puts its trimmed text at the end of the
\* transcript, and any other frame (binary, not JSON, another type or status,
\* a blank or empty text) leaves the transcript as it is.
C22_TranscriptIsArrivals ==
    [][ LET m == lastMessage' IN
        msgCount' = msgCount + 1 =>
            IF /\ m.kind = "json" /\ m.type = "transcription_status"
               /\ m.status = "completed"
               /\ \E i \in DOMAIN m.full_text : m.full_text[i] # " "
            THEN /\ Len(chunks') = Len(chunks) + 1
                 /\ SubSeq(chunks', 1, Len(chunks)) = chunks
                 /\ chunks'[Len(chunks')].text = <<Letters[m.seq + 1]>>
            ELSE chunks' = chunks
      ]_vars

\* C23: silence is measured from a time that is never before the start of
\* the recording, so a recording ended by silence has lasted at least
\* SPEECH_END_DELAY_MS when it is stopped, and (MIN_CHUNK_DURATION_MS being no
\* more than SPEECH_END_DELAY_MS) the minimum-duration filter never skips it.
C23_SilenceEndedNeverShort ==
    /\ MIN_CHUNK_DURATION_MS <= SPEECH_END_DELAY_MS
    /\ lastSpeechTime >= speechStartTime
    /\ \A r \in 1..Len(recorders) :
          recorders[r].via = "silence" =>
              /\ recorders[r].stoppedAt - recorders[r].startedAt >= SPEECH_END_DELAY_MS
              /\ recorders[r].onstop.duration >= SPEECH_END_DELAY_MS
              /\ recorders[r].outcome # "short"

\* A recording with no speech after its start, ended by silence and sent.
C23_Witness ==
    \E r \in 1..Len(recorders) :
        /\ recorders[r].via = "silence"
        /\ recorders[r].stoppedAt - recorders[r].startedAt = SPEECH_END_DELAY_MS
        /\ recorders[r].outcome = "sent"

\* C24: at most one recorder is in the recording state, and a recorder is
\* recording exactly when the VAD state is RECORDING_SPEECH, under every
\* interleaving of ticks, late stop tasks, stopRecording and startRecording.
C24_OneRecorderWhileRecording ==
    LET recording == {r \in 1..Len(recorders) : recorders[r].state = "recording"} IN
    /\ Cardinality(recording) <= 1
    /\ recording # {} <=> vadState = RECORDING_SPEECH

\* The calls that settle in a step, and how.
SettledNow(n) ==
    /\ n \in DOMAIN calls
    /\ calls[n].status = "pending"
    /\ calls'[n].status # "pending"

\* C25: when deleteMeeting(m) succeeds, m leaves the list, and the current
\* meeting is cleared if and only if it is m at that moment: another meeting
\* selected or joined while the request was in flight is not cleared, and m
\* does not stay the current meeting.  When the request fails, the list and
\* the current meeting are unchanged.
C25_DeleteClearsOnlyDeleted ==
    [][ \A n \in DOMAIN calls :
          (SettledNow(n) /\ calls[n].op = "delete") =>
              IF calls'[n].status = "ok"
              THEN /\ \A k \in DOMAIN meetings' : meetings'[k] # calls[n].id
                   /\ IF currentMeetingId = calls[n].id
                      THEN /\ currentMeetingId' = 0
                           /\ currentMeeting' = 0
                           /\ currentMeetingMode' = "view"
                      ELSE UNCHANGED <<currentMeetingId, currentMeeting,
                                       currentMeetingMode>>
              ELSE UNCHANGED <<meetings, currentMeetingId, currentMeeting,
                               currentMeetingMode>>
      ]_vars

\* No getById of the context or of MeetingDetails is in flight.
DetailRequestsSettled ==
    /\ \A n \in DOMAIN calls :
          calls[n].op \in {"select", "join"} => calls[n].status # "pending"
    /\ \A n \in DOMAIN loads : loads[n].status # "pending"

\* The last selectMeeting or joinMeeting call is call n.
LastSelection(n) ==
    /\ n \in DOMAIN calls
    /\ calls[n].op \in {"select", "join"}
    /\ \A k \in DOMAIN calls : (k > n) => calls[k].op \notin {"select", "join"}

\* C26: once the meeting-detail requests have settled, the current meeting
\* is the one of the last selectMeeting or joinMeeting call (when that call
\* succeeded and nothing was deleted since), in the mode of that call, and the
\* meeting MeetingDetails holds is the one of its meetingId prop, whatever
\* the order of the responses; a failed load changes nothing of the current
\* meeting.
C26_LastSelectionShown ==
    [][ /\ DetailRequestsSettled' =>
            /\ \A n \in DOMAIN calls' :
                  ( /\ LastSelection(n)'
                    /\ calls'[n].status = "ok"
                    /\ \A k \in DOMAIN calls' : calls'[k].op # "delete" ) =>
                      /\ currentMeetingId' = calls'[n].id
                      /\ currentMeeting' = calls'[n].id
                      /\ currentMeetingMode' =
                            (IF calls'[n].op = "join" THEN "join" ELSE "view")
            /\ (currentMeetingId' # 0 /\ ~detailsError') =>
                  detailsMeeting' = currentMeetingId'
        /\ \A n \in DOMAIN calls :
              ( /\ SettledNow(n)
                /\ calls[n].op \in {"select", "join"}
                /\ calls'[n].status = "failed" ) =>
                  UNCHANGED <<currentMeetingId, currentMeeting, currentMeetingMode>>
      ]_vars

\* C27: in a joined meeting the current meeting and mode change to another
\* meeting or to view mode only by a call made after the user confirmed
\* leaving; when the user cancels, the current meeting and mode are unchanged.
C27_LeaveOnlyConfirmed ==
    [][ /\ ( /\ currentMeetingMode = "join" /\ currentMeetingId # 0
             /\ currentMeetingId' # 0
             /\ <<currentMeetingId', currentMeetingMode'>> #
                    <<currentMeetingId, currentMeetingMode>> ) =>
               \E n \in DOMAIN calls : SettledNow(n) /\ calls[n].confirmed
        /\ (isConfirmDialogOpen /\ ~isConfirmDialogOpen' /\ calls' = calls) =>
               UNCHANGED <<currentMeetingId, currentMeeting, currentMeetingMode>>
      ]_vars

====
